---------------------------- MODULE Spec2Model ----------------------------
(***************************************************************************)
(* The LS-8 virtual machine of ls8/cpu.py, driven as ls8/ls8.py drives it. *)
(*                                                                         *)
(* The machine state is the CPU object's fields (PC, FL, ram, reg,         *)
(* interrupts_allowed), the local `halted` of CPU.run, what the program    *)
(* printed, and how the process ended.  Python values are unbounded        *)
(* integers or floats; a value is carried here as its number together      *)
(* with a flag telling whether it is a float (true division is the only    *)
(* producer of floats, and the model explores exact quotients only).       *)
(* The set `floats` names the places (registers, memory cells, PC, FL)     *)
(* that currently hold a float.                                            *)
(*                                                                         *)
(* A raised Python exception is the `error` field of the machine record;   *)
(* the fields written before the raise keep their new values, as in the    *)
(* code.                                                                   *)
(***************************************************************************)
EXTENDS Integers, Sequences, FiniteSets, TLC

\* ----------------------------------------------------------------- opcodes
LDI == 130
PRN == 71
HLT == 1
ADD == 160
SUB == 161
MUL == 162
DIV == 163
MOD == 164
DEC == 102
INC == 101
POP == 70
PUSH == 69
CALL == 80
RET == 17
CMP == 167
JMP == 84
JEQ == 85
JNE == 86
AND == 168
OR == 170
XOR == 171
NOT == 105
SHL == 172
SHR == 173
INT == 82
IRET == 19
JGE == 90
JGT == 87
JLE == 89
JLT == 88
LD == 131
NOP == 0
PRA == 72
ST == 132

\* the keys of CPU.op_table
OpTableKeys ==
    { LDI, PRN, ADD, SUB, MUL, DIV, MOD, DEC, INC, POP, PUSH, CALL, RET, CMP,
      JMP, JEQ, JNE, AND, OR, XOR, NOT, SHL, SHR, INT, IRET, JGE, JGT, JLE,
      JLT, LD, ST, PRA }

\* ------------------------------------------------------- register roles
IM == 5
IS == 6
SP == 7
KEY == 244
SP_INIT == 244
RAM_SIZE == 256
REG_COUNT == 8
VECTOR_BASE == 248
TIMER_LINE == 0
KEYBOARD_LINE == 1

\* the flag codes CMP writes
FL_EQ == 1
FL_GT == 2
FL_LT == 4

\* ------------------------------------------------------ Python values
\* A value: its number and whether it is a float.
IntVal(n) == [v |-> n, f |-> FALSE]
FloatVal(n) == [v |-> n, f |-> TRUE]

\* Places that can hold a value.
RegLoc(i) == <<"reg", i>>
RamLoc(a) == <<"ram", a>>
PCLoc == <<"PC", 0>>
FLLoc == <<"FL", 0>>

\* Python list indexing: an int in -len..len-1 is a valid index, negative
\* ones counting from the end; a float is a TypeError, anything else an
\* IndexError.
ListIndexError(i, len) ==
    IF i.f THEN "TypeError"
    ELSE IF i.v >= -len /\ i.v < len THEN "None"
    ELSE "IndexError"

ListIndex(i, len) == i.v % len

Tag(floats, loc, val) ==
    IF val.f THEN floats \cup {loc} ELSE floats \ {loc}

Raise(m, e) == [m EXCEPT !.error = e]

\* self.reg[i] as an r-value (the index is known to be valid)
RegGet(m, i) ==
    [v |-> m.reg[ListIndex(i, REG_COUNT)],
     f |-> RegLoc(ListIndex(i, REG_COUNT)) \in m.floats]

\* self.reg[i] = val (the index is known to be valid)
RegSet(m, i, val) ==
    LET k == ListIndex(i, REG_COUNT) IN
    [m EXCEPT !.reg[k] = val.v, !.floats = Tag(m.floats, RegLoc(k), val)]

RamGet(m, i) ==
    [v |-> m.ram[ListIndex(i, RAM_SIZE)],
     f |-> RamLoc(ListIndex(i, RAM_SIZE)) \in m.floats]

PCVal(m) == [v |-> m.PC, f |-> PCLoc \in m.floats]
FLVal(m) == [v |-> m.FL, f |-> FLLoc \in m.floats]

PCSet(m, val) ==
    [m EXCEPT !.PC = val.v, !.floats = Tag(m.floats, PCLoc, val)]

FLSet(m, val) ==
    [m EXCEPT !.FL = val.v, !.floats = Tag(m.floats, FLLoc, val)]

\* x + n for a Python int n: the sum of a float is a float
Plus(x, n) == [v |-> x.v + n, f |-> x.f]

\* -------------------------------------------------- Python int operators
RECURSIVE Pow2(_)
Pow2(n) == IF n = 0 THEN 1 ELSE 2 * Pow2(n - 1)

\* x & y, x | y, x ^ y on Python ints (two's complement of unbounded width)
RECURSIVE BitAnd(_, _)
BitAnd(x, y) ==
    IF x = 0 \/ y = 0 THEN 0
    ELSE IF x = -1 THEN y
    ELSE IF y = -1 THEN x
    ELSE (x % 2) * (y % 2) + 2 * BitAnd(x \div 2, y \div 2)

RECURSIVE BitOr(_, _)
BitOr(x, y) ==
    IF x = 0 THEN y
    ELSE IF y = 0 THEN x
    ELSE IF x = -1 \/ y = -1 THEN -1
    ELSE (IF x % 2 = 1 \/ y % 2 = 1 THEN 1 ELSE 0)
         + 2 * BitOr(x \div 2, y \div 2)

RECURSIVE BitXor(_, _)
BitXor(x, y) ==
    IF x = 0 THEN y
    ELSE IF y = 0 THEN x
    ELSE IF x = -1 /\ y = -1 THEN 0
    ELSE (IF x % 2 = y % 2 THEN 0 ELSE 1)
         + 2 * BitXor(x \div 2, y \div 2)

\* Python's %: the result takes the sign of the divisor (y # 0)
PyMod(x, y) == IF y > 0 THEN x % y ELSE -((-x) % (-y))


\* Python's / on numbers whose quotient is exact (y # 0)
TrueDiv(x, y) == IF y > 0 THEN x \div y ELSE (-x) \div (-y)

\* ------------------------------------------------------- memory, registers
SPIndex == IntVal(SP)

RamErr(mar) == ListIndexError(mar, RAM_SIZE)
RegErr(i) == ListIndexError(i, REG_COUNT)

\* CPU.ram_read raises exactly when RamErr(mar) is not "None";
\* otherwise it returns RamGet(m, mar)
ram_read(m, mar) == RamGet(m, mar)

ram_write(m, mar, mdr) ==
    IF RamErr(mar) # "None" THEN Raise(m, RamErr(mar))
    ELSE LET k == ListIndex(mar, RAM_SIZE) IN
         [m EXCEPT !.ram[k] = mdr.v, !.floats = Tag(m.floats, RamLoc(k), mdr)]

reg_write(m, register, value) ==
    IF RegErr(register) # "None" THEN Raise(m, RegErr(register))
    ELSE RegSet(m, register, value)

\* ---------------------------------------------------------------- the ALU
\* The value an ALU operation stores in reg[reg_a], from x = reg[reg_a] and
\* y = reg[reg_b].
AluResult(op, x, y) ==
    CASE op = "ADD" -> [v |-> x.v + y.v, f |-> x.f \/ y.f]
      [] op = "SUB" -> [v |-> x.v - y.v, f |-> x.f \/ y.f]
      [] op = "MUL" -> [v |-> x.v * y.v, f |-> x.f \/ y.f]
      [] op = "DIV" -> FloatVal(TrueDiv(x.v, y.v))
      [] op = "MOD" -> [v |-> PyMod(x.v, y.v), f |-> x.f \/ y.f]
      [] op = "INC" -> Plus(x, 1)
      [] op = "DEC" -> Plus(x, -1)
      [] op = "AND" -> IntVal(BitAnd(x.v, y.v))
      [] op = "OR" -> IntVal(BitOr(x.v, y.v))
      [] op = "XOR" -> IntVal(BitXor(x.v, y.v))
      [] op = "NOT" -> IntVal(-x.v - 1)
      [] op = "SHL" -> IntVal(x.v * Pow2(y.v))
      [] op = "SHR" -> IntVal(x.v \div Pow2(y.v))

AluMathOps == {"ADD", "SUB", "MUL", "DIV", "MOD", "DEC", "INC"}
AluBitOps == {"AND", "OR", "XOR", "NOT", "SHL", "SHR"}
AluUnaryOps == {"INC", "DEC", "NOT"}

\* Whether the operation's Python expression raises (index errors, division
\* by zero, a bitwise operator on a float, a negative shift count).
AluRaises(m, op, reg_a, reg_b) ==
    \/ RegErr(reg_a) # "None"
    \/ /\ op \notin AluUnaryOps
       /\ RegErr(reg_b) # "None"
    \/ /\ op \in {"DIV", "MOD"}
       /\ RegGet(m, reg_b).v = 0
    \/ /\ op \in AluBitOps
       /\ RegGet(m, reg_a).f
    \/ /\ op \in AluBitOps \ AluUnaryOps
       /\ RegGet(m, reg_b).f
    \/ /\ op \in {"SHL", "SHR"}
       /\ RegGet(m, reg_b).v < 0

\* AluCmp with the new code or-ed into FL instead of replacing it
AluCmp_OrsIntoFlags(m, reg_a, reg_b) ==
    IF RegErr(reg_a) # "None" \/ RegErr(reg_b) # "None"
    THEN Raise(m, "Exception")
    ELSE LET x == RegGet(m, reg_a).v
             y == RegGet(m, reg_b).v
         IN  IF x = y THEN FLSet(m, IntVal(BitOr(m.FL, FL_EQ)))
             ELSE IF x < y THEN FLSet(m, IntVal(BitOr(m.FL, FL_LT)))
             ELSE FLSet(m, IntVal(BitOr(m.FL, FL_GT)))

\* The CMP branch: FL is cleared first, then set by the comparison.
AluCmp(m, reg_a, reg_b) ==
    LET m0 == FLSet(m, IntVal(0)) IN
    IF RegErr(reg_a) # "None" \/ RegErr(reg_b) # "None"
    THEN Raise(m0, "Exception")
    ELSE LET x == RegGet(m0, reg_a).v
             y == RegGet(m0, reg_b).v
         IN  IF x = y THEN FLSet(m0, IntVal(FL_EQ))
             ELSE IF x < y THEN FLSet(m0, IntVal(FL_LT))
             ELSE FLSet(m0, IntVal(FL_GT))

\* alu with a division or modulo by zero storing 0 instead of raising
alu_ZeroDivisorYieldsZero(m, op, reg_a, reg_b) ==
    IF op \in AluMathOps \cup AluBitOps
    THEN IF /\ op \in {"DIV", "MOD"}
            /\ RegErr(reg_a) = "None"
            /\ RegErr(reg_b) = "None"
            /\ RegGet(m, reg_b).v = 0
         THEN RegSet(m, reg_a, IntVal(0))
         ELSE IF AluRaises(m, op, reg_a, reg_b) THEN Raise(m, "Exception")
         ELSE RegSet(m, reg_a,
                     AluResult(op, RegGet(m, reg_a),
                               IF op \in AluUnaryOps THEN IntVal(0)
                               ELSE RegGet(m, reg_b)))
    ELSE IF op = "CMP" THEN AluCmp(m, reg_a, reg_b)
    ELSE m

\* CPU.alu: every exception inside the try block is replaced by
\* Exception("Unsupported ALU operation"); an operation tag in neither
\* table and not CMP falls through the if/elif chain.
alu(m, op, reg_a, reg_b) ==
    IF op \in AluMathOps \cup AluBitOps
    THEN IF AluRaises(m, op, reg_a, reg_b) THEN Raise(m, "Exception")
         ELSE RegSet(m, reg_a,
                     AluResult(op, RegGet(m, reg_a),
                               IF op \in AluUnaryOps THEN IntVal(0)
                               ELSE RegGet(m, reg_b)))
    ELSE IF op = "CMP" THEN AluCmp(m, reg_a, reg_b)
    ELSE m

\* -------------------------------------------------------------- the stack
pop_stack(m, reg_address) ==
    LET sp == RegGet(m, SPIndex) IN
    IF RamErr(sp) # "None" THEN Raise(m, RamErr(sp))
    ELSE IF RegErr(reg_address) # "None" THEN Raise(m, RegErr(reg_address))
    ELSE LET m1 == RegSet(m, reg_address, ram_read(m, sp)) IN
         RegSet(m1, SPIndex, Plus(RegGet(m1, SPIndex), 1))

\* push_stack storing at SP before lowering it
push_stack_StoresThenLowers(m, reg_address) ==
    IF RegErr(reg_address) # "None" THEN Raise(m, RegErr(reg_address))
    ELSE LET m1 == ram_write(m, RegGet(m, SPIndex), RegGet(m, reg_address)) IN
         IF m1.error # "None" THEN m1
         ELSE RegSet(m1, SPIndex, Plus(RegGet(m1, SPIndex), -1))

push_stack(m, reg_address) ==
    LET m1 == RegSet(m, SPIndex, Plus(RegGet(m, SPIndex), -1)) IN
    IF RegErr(reg_address) # "None" THEN Raise(m1, RegErr(reg_address))
    ELSE ram_write(m1, RegGet(m1, SPIndex), RegGet(m1, reg_address))

\* ------------------------------------------------------------ subroutines
\* call stacking the address of the CALL itself
call_StacksCallSite(m, reg_address) ==
    LET m1 == RegSet(m, SPIndex, Plus(RegGet(m, SPIndex), -1))
        m2 == ram_write(m1, RegGet(m1, SPIndex), PCVal(m1))
    IN  IF m2.error # "None" THEN m2
        ELSE IF RegErr(reg_address) # "None" THEN Raise(m2, RegErr(reg_address))
        ELSE PCSet(m2, RegGet(m2, reg_address))

call(m, reg_address) ==
    LET m1 == RegSet(m, SPIndex, Plus(RegGet(m, SPIndex), -1))
        m2 == ram_write(m1, RegGet(m1, SPIndex), Plus(PCVal(m1), 2))
    IN  IF m2.error # "None" THEN m2
        ELSE IF RegErr(reg_address) # "None" THEN Raise(m2, RegErr(reg_address))
        ELSE PCSet(m2, RegGet(m2, reg_address))

ret(m) ==
    LET sp == RegGet(m, SPIndex) IN
    IF RamErr(sp) # "None" THEN Raise(m, RamErr(sp))
    ELSE LET m1 == PCSet(m, ram_read(m, sp)) IN
         RegSet(m1, SPIndex, Plus(RegGet(m1, SPIndex), 1))

\* ------------------------------------------------------------------ jumps
set_pc(m, reg_a) ==
    IF RegErr(reg_a) # "None" THEN Raise(m, RegErr(reg_a))
    ELSE PCSet(m, RegGet(m, reg_a))

\* the masks with 'ge' testing the greater-than bit alone
ComparatorMask_GeWithoutEqual(test) ==
    CASE test = "eq" -> 1
      [] test = "ne" -> 1
      [] test = "ge" -> 2
      [] test = "gt" -> 2
      [] test = "le" -> 5
      [] test = "lt" -> 4

ComparatorMask(test) ==
    CASE test = "eq" -> 1
      [] test = "ne" -> 1
      [] test = "ge" -> 3
      [] test = "gt" -> 2
      [] test = "le" -> 5
      [] test = "lt" -> 4

comparator(m, test, reg_a) ==
    IF FLVal(m).f THEN Raise(m, "TypeError")
    ELSE LET flag == BitAnd(m.FL, ComparatorMask(test)) IN
         IF (flag # 0 /\ test # "ne") \/ (test = "ne" /\ flag = 0)
         THEN set_pc(m, reg_a)
         ELSE PCSet(m, Plus(PCVal(m), 2))

\* ------------------------------------------------------------ load, store
ld(m, reg_a, reg_b) ==
    IF RegErr(reg_b) # "None" THEN Raise(m, RegErr(reg_b))
    ELSE IF RamErr(RegGet(m, reg_b)) # "None"
    THEN Raise(m, RamErr(RegGet(m, reg_b)))
    ELSE reg_write(m, reg_a, ram_read(m, RegGet(m, reg_b)))

st(m, reg_a, reg_b) ==
    IF RegErr(reg_a) # "None" THEN Raise(m, RegErr(reg_a))
    ELSE IF RegErr(reg_b) # "None" THEN Raise(m, RegErr(reg_b))
    ELSE ram_write(m, RegGet(m, reg_a), RegGet(m, reg_b))


\* ------------------------------------------------------------- interrupts
\* The first i in range(8) with ((masked >> i) & 1) == 1, or 8 when the loop
\* finds none.
RECURSIVE FirstSetBit(_, _)
FirstSetBit(masked, i) ==
    IF i = 8 THEN 8
    ELSE IF (masked \div Pow2(i)) % 2 = 1 THEN i
    ELSE FirstSetBit(masked, i + 1)

\* for i in range(7): self.push_stack(i)
RECURSIVE PushRegisters(_, _)
PushRegisters(m, i) ==
    IF i = 7 \/ m.error # "None" THEN m
    ELSE PushRegisters(push_stack(m, IntVal(i)), i + 1)

\* interrupt_prep leaving interrupts_allowed as it was
interrupt_prep_LeavesInterruptsOn(m) ==
    LET m1 == RegSet(m, IntVal(IS), IntVal(0))
        m2 == RegSet(m1, SPIndex, Plus(RegGet(m1, SPIndex), -1))
        m3 == ram_write(m2, RegGet(m2, SPIndex), PCVal(m2))
        m4 == RegSet(m3, SPIndex, Plus(RegGet(m3, SPIndex), -1))
        m5 == ram_write(m4, RegGet(m4, SPIndex), FLVal(m4))
    IN  IF m3.error # "None" THEN m3
        ELSE IF m5.error # "None" THEN m5
        ELSE PushRegisters(m5, 0)

\* interrupt_prep storing FL before PC
interrupt_prep_FlagsFirst(m) ==
    LET m1 == RegSet([m EXCEPT !.interrupts_allowed = FALSE], IntVal(IS), IntVal(0))
        m2 == RegSet(m1, SPIndex, Plus(RegGet(m1, SPIndex), -1))
        m3 == ram_write(m2, RegGet(m2, SPIndex), FLVal(m2))
        m4 == RegSet(m3, SPIndex, Plus(RegGet(m3, SPIndex), -1))
        m5 == ram_write(m4, RegGet(m4, SPIndex), PCVal(m4))
    IN  IF m3.error # "None" THEN m3
        ELSE IF m5.error # "None" THEN m5
        ELSE PushRegisters(m5, 0)

interrupt_prep(m) ==
    LET m1 == RegSet([m EXCEPT !.interrupts_allowed = FALSE], IntVal(IS), IntVal(0))
        m2 == RegSet(m1, SPIndex, Plus(RegGet(m1, SPIndex), -1))
        m3 == ram_write(m2, RegGet(m2, SPIndex), PCVal(m2))
        m4 == RegSet(m3, SPIndex, Plus(RegGet(m3, SPIndex), -1))
        m5 == ram_write(m4, RegGet(m4, SPIndex), FLVal(m4))
    IN  IF m3.error # "None" THEN m3
        ELSE IF m5.error # "None" THEN m5
        ELSE PushRegisters(m5, 0)

\* the loop of check_interrupts without its break, from line i on
RECURSIVE DispatchEvery(_, _, _)
DispatchEvery(m, masked_interrupts, i) ==
    IF i = 8 \/ m.error # "None" THEN m
    ELSE IF (masked_interrupts \div Pow2(i)) % 2 = 1
    THEN LET m1 == interrupt_prep(m) IN
         DispatchEvery(IF m1.error # "None" THEN m1
                       ELSE PCSet(m1, ram_read(m1, IntVal(VECTOR_BASE + i))),
                       masked_interrupts, i + 1)
    ELSE DispatchEvery(m, masked_interrupts, i + 1)

\* check_interrupts going on with the scan after a dispatch
check_interrupts_KeepsScanning(m) ==
    IF RegGet(m, IntVal(IM)).f \/ RegGet(m, IntVal(IS)).f
    THEN Raise(m, "TypeError")
    ELSE DispatchEvery(m, BitAnd(m.reg[IM], m.reg[IS]), 0)

check_interrupts(m) ==
    IF RegGet(m, IntVal(IM)).f \/ RegGet(m, IntVal(IS)).f
    THEN Raise(m, "TypeError")
    ELSE LET masked_interrupts == BitAnd(m.reg[IM], m.reg[IS])
             i == FirstSetBit(masked_interrupts, 0)
         IN  IF i = 8 THEN m
             ELSE LET m1 == interrupt_prep(m) IN
                  IF m1.error # "None" THEN m1
                  ELSE PCSet(m1, ram_read(m1, IntVal(VECTOR_BASE + i)))

\* CPU.interrupt(interrupt): the status register is assigned, not or-ed
interrupt(m, line) == RegSet(m, IntVal(IS), IntVal(Pow2(line)))

\* for i in range(6, -1, -1): self.pop_stack(i)
RECURSIVE PopRegisters(_, _)
PopRegisters(m, i) ==
    IF i = -1 \/ m.error # "None" THEN m
    ELSE PopRegisters(pop_stack(m, IntVal(i)), i - 1)

\* inter_ret popping PC before FL
inter_ret_PopsPCFirst(m) ==
    LET m1 == PopRegisters(m, 6) IN
    IF m1.error # "None" THEN m1
    ELSE IF RamErr(RegGet(m1, SPIndex)) # "None"
    THEN Raise(m1, RamErr(RegGet(m1, SPIndex)))
    ELSE LET m2 == PCSet(m1, ram_read(m1, RegGet(m1, SPIndex)))
             m3 == RegSet(m2, SPIndex, Plus(RegGet(m2, SPIndex), 1))
         IN  IF RamErr(RegGet(m3, SPIndex)) # "None"
             THEN Raise(m3, RamErr(RegGet(m3, SPIndex)))
             ELSE LET m4 == FLSet(m3, ram_read(m3, RegGet(m3, SPIndex)))
                      m5 == RegSet(m4, SPIndex, Plus(RegGet(m4, SPIndex), 1))
                  IN  [m5 EXCEPT !.interrupts_allowed = TRUE]

inter_ret(m) ==
    LET m1 == PopRegisters(m, 6) IN
    IF m1.error # "None" THEN m1
    ELSE IF RamErr(RegGet(m1, SPIndex)) # "None"
    THEN Raise(m1, RamErr(RegGet(m1, SPIndex)))
    ELSE LET m2 == FLSet(m1, ram_read(m1, RegGet(m1, SPIndex)))
             m3 == RegSet(m2, SPIndex, Plus(RegGet(m2, SPIndex), 1))
         IN  IF RamErr(RegGet(m3, SPIndex)) # "None"
             THEN Raise(m3, RamErr(RegGet(m3, SPIndex)))
             ELSE LET m4 == PCSet(m3, ram_read(m3, RegGet(m3, SPIndex)))
                      m5 == RegSet(m4, SPIndex, Plus(RegGet(m4, SPIndex), 1))
                  IN  [m5 EXCEPT !.interrupts_allowed = TRUE]

\* --------------------------------------------------------------- printing
Printed(k, val) == [k |-> k, v |-> val.v, f |-> val.f]

prn(m, a) ==
    IF RegErr(a) # "None" THEN Raise(m, RegErr(a))
    ELSE [m EXCEPT !.out = Append(m.out, Printed("PRN", RegGet(m, a)))]

\* print(chr(self.reg[a])): chr takes an int in range(0x110000)
pra(m, a) ==
    IF RegErr(a) # "None" THEN Raise(m, RegErr(a))
    ELSE IF RegGet(m, a).f THEN Raise(m, "TypeError")
    ELSE IF RegGet(m, a).v < 0 \/ RegGet(m, a).v > 1114111
    THEN Raise(m, "ValueError")
    ELSE [m EXCEPT !.out = Append(m.out, Printed("PRA", RegGet(m, a)))]

\* ------------------------------------------------------ the dispatch table
\* CPU.op_table[IR](a, b), for IR a key of the table.  The SUB entry passes
\* alu the single string 'SUB, a, b' and the INT entry passes interrupt two
\* arguments: both calls raise TypeError before the callee runs.
op_table(m, IR, a, b) ==
    CASE IR = LDI -> reg_write(m, a, b)
      [] IR = PRN -> prn(m, a)
      [] IR = ADD -> alu(m, "ADD", a, b)
      [] IR = SUB -> Raise(m, "TypeError")
      [] IR = MUL -> alu(m, "MUL", a, b)
      [] IR = DIV -> alu(m, "DIV", a, b)
      [] IR = MOD -> alu(m, "MOD", a, b)
      [] IR = DEC -> alu(m, "DEC", a, b)
      [] IR = INC -> alu(m, "INC", a, b)
      [] IR = POP -> pop_stack(m, a)
      [] IR = PUSH -> push_stack(m, a)
      [] IR = CALL -> call(m, a)
      [] IR = RET -> ret(m)
      [] IR = CMP -> alu(m, "CMP", a, b)
      [] IR = JMP -> set_pc(m, a)
      [] IR = JEQ -> comparator(m, "eq", a)
      [] IR = JNE -> comparator(m, "ne", a)
      [] IR = AND -> alu(m, "AND", a, b)
      [] IR = OR -> alu(m, "OR", a, b)
      [] IR = XOR -> alu(m, "XOR", a, b)
      [] IR = NOT -> alu(m, "NOT", a, b)
      [] IR = SHL -> alu(m, "SHL", a, b)
      [] IR = SHR -> alu(m, "SHR", a, b)
      [] IR = INT -> Raise(m, "TypeError")
      [] IR = IRET -> inter_ret(m)
      [] IR = JGE -> comparator(m, "ge", a)
      [] IR = JGT -> comparator(m, "gt", a)
      [] IR = JLE -> comparator(m, "le", a)
      [] IR = JLT -> comparator(m, "lt", a)
      [] IR = LD -> ld(m, a, b)
      [] IR = ST -> st(m, a, b)
      [] IR = PRA -> pra(m, a)


\* ------------------------------------------------------------------ bounds
\* loop steps explored per run
MaxSteps == 24
\* polls per run at which the timer is due or a key is waiting
MaxEvents == 1
\* largest shift count explored (a larger one leaves the checker's integers)
MaxShift == 8

\* the key codes the keyboard delivers
Keys == {65}
NoKey == -1

\* ------------------------------------------------------------------- state
VARIABLES
    PC, FL, ram, reg, interrupts_allowed,   \* the CPU object's fields
    floats,     \* the places holding a Python float
    halted,     \* the local of CPU.run
    out,        \* what has been printed
    error,      \* the exception that ended the process, or "None"
    pos,        \* position in the loop body of CPU.run: "top", "check", "fetch"
                \* (under AluSpec: "alu" before the call, "returned" after)
    events,     \* polls so far at which a device had an event
    hist        \* the steps taken, each with the machine as it was before it

vars == <<PC, FL, ram, reg, interrupts_allowed, floats, halted, out, error,
          pos, events, hist>>

\* the machine as one value
Machine ==
    [PC |-> PC, FL |-> FL, ram |-> ram, reg |-> reg,
     interrupts_allowed |-> interrupts_allowed, floats |-> floats,
     out |-> out, error |-> error]

\* ls8.py: an IndexError that leaves cpu.run() is caught by the except
\* clause meant for a missing sys.argv[1], which prints its message.
LsMain(m) ==
    IF m.error = "IndexError"
    THEN [m EXCEPT !.out = Append(m.out,
                     [k |-> "You need to input a file name.", v |-> 0, f |-> FALSE])]
    ELSE m

SetMachine(m) ==
    LET n == LsMain(m) IN
    /\ PC' = n.PC
    /\ FL' = n.FL
    /\ ram' = n.ram
    /\ reg' = n.reg
    /\ interrupts_allowed' = n.interrupts_allowed
    /\ floats' = n.floats
    /\ out' = n.out
    /\ error' = n.error

Running == ~halted /\ error = "None" /\ Len(hist) < MaxSteps

\* The exit status of the process: a normal return of cpu.run() and an
\* IndexError caught in ls8.py both end it with 0, sys.exit(1) and every
\* other uncaught exception with 1.
ExitStatus == IF error \in {"None", "IndexError"} THEN 0 ELSE 1

Step(act, IR, a, b, timer, key) ==
    [act |-> act, pre |-> Machine, IR |-> IR, a |-> a, b |-> b,
     timer |-> timer, key |-> key]

\* ---------------------------------------------------------- the run loop
\* The timer and keyboard checks at the top of the loop body, made only
\* while interrupts are allowed.  Whether three seconds have passed and
\* whether a key is waiting are inputs.
PollDevices ==
    /\ Running
    /\ pos = "top"
    /\ interrupts_allowed
    /\ \E timer_due \in BOOLEAN, key \in Keys \cup {NoKey} :
         LET n == IF timer_due \/ key # NoKey THEN 1 ELSE 0
             m1 == IF timer_due THEN interrupt(Machine, TIMER_LINE) ELSE Machine
             m2 == IF key # NoKey
                   THEN interrupt(ram_write(m1, IntVal(KEY), IntVal(key)),
                                  KEYBOARD_LINE)
                   ELSE m1
         IN  /\ events + n <= MaxEvents
             /\ events' = events + n
             /\ SetMachine(m2)
             /\ hist' = Append(hist, Step("poll", 0, 0, 0, timer_due, key))
    /\ pos' = "check"
    /\ UNCHANGED halted

\* self.check_interrupts(), the last statement under `if interrupts_allowed`
CheckInterrupts ==
    /\ Running
    /\ pos = "check"
    /\ SetMachine(check_interrupts(Machine))
    /\ hist' = Append(hist, Step("check", 0, 0, 0, FALSE, NoKey))
    /\ pos' = "fetch"
    /\ UNCHANGED <<halted, events>>

\* The loop is at its three ram_read calls.
AtFetch ==
    /\ Running
    /\ \/ pos = "fetch"
       \/ pos = "top" /\ ~interrupts_allowed

\* The exception the three reads raise, "None" when they all return.
FetchErr(m) ==
    IF RamErr(PCVal(m)) # "None" THEN RamErr(PCVal(m))
    ELSE IF RamErr(Plus(PCVal(m), 1)) # "None" THEN RamErr(Plus(PCVal(m), 1))
    ELSE RamErr(Plus(PCVal(m), 2))

FetchIR(m) == ram_read(m, PCVal(m))
FetchA(m) == ram_read(m, Plus(PCVal(m), 1))
FetchB(m) == ram_read(m, Plus(PCVal(m), 2))

FetchFails ==
    /\ AtFetch
    /\ FetchErr(Machine) # "None"
    /\ SetMachine(Raise(Machine, FetchErr(Machine)))
    /\ hist' = Append(hist, Step("fetch_error", 0, 0, 0, FALSE, NoKey))
    /\ pos' = "top"
    /\ UNCHANGED <<halted, events>>

\* The instruction stays inside what the checker's integers can hold: an
\* exact quotient, a bounded shift count.
Explored(m, IR, a, b) ==
    /\ (IR = DIV /\ RegErr(a) = "None" /\ RegErr(b) = "None"
           /\ RegGet(m, b).v # 0)
         => PyMod(RegGet(m, a).v, RegGet(m, b).v) = 0
    /\ (IR \in {SHL, SHR} /\ RegErr(b) = "None")
         => RegGet(m, b).v <= MaxShift

\* The machine after `IR in self.op_table` held: the operation ran and,
\* unless bit 4 of IR is set, PC moved past the operands.
Dispatched(m, IR, a, b) ==
    LET m1 == op_table(m, IR.v, a, b) IN
    IF m1.error # "None" THEN m1
    ELSE IF IR.f THEN Raise(m1, "TypeError")
    ELSE LET operands == IR.v \div 64
             set_directly == (IR.v \div 16) % 2
         IN  IF set_directly = 0
             THEN PCSet(m1, Plus(PCVal(m1), operands + 1))
             ELSE m1

Execute ==
    /\ AtFetch
    /\ FetchErr(Machine) = "None"
    /\ LET IR == FetchIR(Machine)
           a == FetchA(Machine)
           b == FetchB(Machine)
       IN  /\ IR.v \in OpTableKeys
           /\ Explored(Machine, IR.v, a, b)
           /\ SetMachine(Dispatched(Machine, IR, a, b))
           /\ hist' = Append(hist, Step("execute", IR.v, a.v, b.v, FALSE, NoKey))
    /\ pos' = "top"
    /\ UNCHANGED <<halted, events>>

Halt ==
    /\ AtFetch
    /\ FetchErr(Machine) = "None"
    /\ FetchIR(Machine).v \notin OpTableKeys
    /\ FetchIR(Machine).v = HLT
    /\ halted' = TRUE
    /\ hist' = Append(hist, Step("halt", HLT, FetchA(Machine).v, FetchB(Machine).v,
                                 FALSE, NoKey))
    /\ pos' = "top"
    /\ UNCHANGED <<PC, FL, ram, reg, interrupts_allowed, floats, out, error, events>>

\* `elif IR == NOP: continue`
NoOp ==
    /\ AtFetch
    /\ FetchErr(Machine) = "None"
    /\ FetchIR(Machine).v \notin OpTableKeys \cup {HLT}
    /\ FetchIR(Machine).v = NOP
    /\ hist' = Append(hist, Step("nop", NOP, FetchA(Machine).v, FetchB(Machine).v,
                                 FALSE, NoKey))
    /\ pos' = "top"
    /\ UNCHANGED <<PC, FL, ram, reg, interrupts_allowed, floats, out, error,
                   halted, events>>

\* print('Unknown instruction'); sys.exit(1)
UnknownInstruction ==
    /\ AtFetch
    /\ FetchErr(Machine) = "None"
    /\ FetchIR(Machine).v \notin OpTableKeys \cup {HLT, NOP}
    /\ SetMachine([Machine EXCEPT
                     !.out = Append(out, [k |-> "Unknown instruction", v |-> 0,
                                          f |-> FALSE]),
                     !.error = "SystemExit"])
    /\ hist' = Append(hist, Step("unknown", FetchIR(Machine).v, FetchA(Machine).v,
                                 FetchB(Machine).v, FALSE, NoKey))
    /\ pos' = "top"
    /\ UNCHANGED <<halted, events>>

Next ==
    \/ PollDevices
    \/ CheckInterrupts
    \/ FetchFails
    \/ Execute
    \/ Halt
    \/ NoOp
    \/ UnknownInstruction


\* ---------------------------------------------------------- the programs
\* CPU.load writes the bytes of the program file to addresses 0, 1, 2, ...;
\* cells the file does not reach keep the 0 of the constructor.  A program
\* is given here by its pieces, each a byte sequence and the address of its
\* first byte, the cells between them being 0 lines of the file.
At(base, code) == [at |-> base, code |-> code]

Image(pieces) ==
    [addr \in 0..(RAM_SIZE - 1) |->
       LET hit == {i \in 1..Len(pieces) :
                     /\ addr >= pieces[i].at
                     /\ addr < pieces[i].at + Len(pieces[i].code)}
       IN  IF hit = {} THEN 0
           ELSE LET i == CHOOSE j \in hit : TRUE
                IN  pieces[i].code[addr - pieces[i].at + 1]]

RegPairs == {<<0, 1>>, <<7, 3>>, <<4, 4>>}
ValuesA == {0, 2, 255}
ValuesB == {0, 1, 255}
BinaryOps == {ADD, SUB, MUL, DIV, MOD, AND, OR, XOR, SHL, SHR, CMP}
UnaryOps == {INC, DEC, NOT}

\* LDI a,x; LDI b,y; OP a,b; HLT
BinaryPrograms ==
    { Image(<<At(0, <<LDI, ab[1], x, LDI, ab[2], y, op, ab[1], ab[2], HLT>>)>>) :
        op \in BinaryOps, ab \in RegPairs, x \in ValuesA, y \in ValuesB }

\* LDI a,x; OP a; HLT
UnaryPrograms ==
    { Image(<<At(0, <<LDI, a, x, op, a, HLT>>)>>) :
        op \in UnaryOps, a \in {0, 7}, x \in {0, 255} }

JumpOps == {JMP, JEQ, JNE, JGE, JGT, JLE, JLT}

\* LDI 0,x; LDI 1,y; LDI 2,target; CMP 0,1; Jcc 2; HLT ... target: HLT
JumpPrograms ==
    { Image(<<At(0, <<LDI, 0, xy[1], LDI, 1, xy[2], LDI, 2, 20,
                      CMP, 0, 1, j, 2, HLT>>),
              At(20, <<HLT>>)>>) :
        j \in JumpOps, xy \in {<<0, 0>>, <<0, 1>>, <<1, 0>>, <<255, 2>>} }

\* LDI 0,x; LDI 1,y; CMP 0,1; CMP 1,0; CMP 0,0; HLT
CompareTwicePrograms ==
    { Image(<<At(0, <<LDI, 0, xy[1], LDI, 1, xy[2], CMP, 0, 1, CMP, 1, 0,
                      CMP, 0, 0, HLT>>)>>) :
        xy \in {<<0, 1>>, <<255, 2>>, <<7, 7>>} }

\* LDI r,9; [LDI 7,s;] PUSH r; (POP r | POP 2 | PUSH r); HLT
StackStarts == {<<>>, <<LDI, SP, 0>>, <<LDI, SP, 1>>}
StackPrograms ==
    { Image(<<At(0, <<LDI, r, 9>> \o s
                      \o <<PUSH, r, second[1], IF second[2] THEN r ELSE 2, HLT>>)>>) :
        s \in StackStarts, r \in 0..(REG_COUNT - 1),
        second \in {<<POP, TRUE>>, <<POP, FALSE>>, <<PUSH, TRUE>>} }

CallBodies == {<<>>, <<PUSH, 0, POP, 0>>, <<LDI, 0, 7>>, <<PUSH, 0>>}

\* LDI 1,target; CALL 1; HLT ... target: body; RET
CallPrograms ==
    { Image(<<At(0, <<LDI, 1, 16, CALL, 1, HLT>>),
              At(16, body \o <<RET>>)>>) :
        body \in CallBodies }

HandlerBodies == {<<>>, <<LDI, IS, 1>>, <<LDI, IS, 3>>, <<LDI, 0, 99>>, <<INT, 0>>}
MainStarts == {<<>>, <<LDI, SP, 4>>, <<LDI, IS, 3>>}

\* LDI 5,im; [start;] CMP 0,0; INC 0; HLT, the timer handler `body; IRET`,
\* the keyboard handler `LDI 0,KEY; LD 1,0; PRA 1; IRET` and the two vectors
InterruptPrograms ==
    { Image(<<At(0, <<LDI, IM, im>> \o start \o <<CMP, 0, 0, INC, 0, HLT>>),
              At(32, body \o <<IRET>>),
              At(48, <<LDI, 0, KEY, LD, 1, 0, PRA, 1, IRET>>),
              At(VECTOR_BASE, <<32, 48>>)>>) :
        im \in {1, 2, 3}, start \in MainStarts, body \in HandlerBodies }

\* LDI 5,im; LDI 6,is; HLT, with the eight vectors naming eight handlers
\* that halt
PriorityPrograms ==
    { Image(<<At(0, <<LDI, IM, im, LDI, IS, is, HLT>>),
              At(32, <<HLT, HLT, HLT, HLT, HLT, HLT, HLT, HLT>>),
              At(VECTOR_BASE, <<32, 33, 34, 35, 36, 37, 38, 39>>)>>) :
        im \in {6, 12, 192, 255}, is \in {6, 12, 192, 255} }

LastCell == RAM_SIZE - 1

\* programs around the ends of memory and the opcodes outside the table
EdgePrograms ==
    { Image(<<At(0, <<NOP, HLT>>)>>),
      Image(<<At(0, <<HLT>>)>>),
      Image(<<At(0, <<IRET>>)>>),
      Image(<<At(0, <<LDI, 0, 8, LDI, 1, 9, MUL, 0, 1, PRN, 0, HLT>>)>>),
      Image(<<At(0, <<LDI, 0, 200, LDI, 1, 65, ST, 0, 1, LD, 2, 0, PRA, 2, PRN, 2, HLT>>)>>),
      Image(<<At(0, <<LDI, 0, 6, LDI, 1, 3, DIV, 0, 1, PRN, 0, AND, 0, 1>>)>>),
      Image(<<At(0, <<LDI, 0, 6, LDI, 1, 3, DIV, 0, 1, ADD, 1, 0, PUSH, 1, JMP, 0>>)>>),
      Image(<<At(0, <<ADD, 8, 0>>)>>),
      Image(<<At(0, <<PUSH, 8>>)>>),
      Image(<<At(0, <<LDI, 9, 1>>)>>),
      Image(<<At(0, <<DEC, 0, PRA, 0>>)>>) }
    \cup
    { Image(<<At(0, <<LDI, 0, 1>> \o <<u>>)>>) : u \in {2, 255} }
    \cup
    { Image(<<At(0, <<LDI, 0, t, JMP, 0>>), At(t, <<op>>)>>) :
        t \in {LastCell - 3, LastCell - 2, LastCell - 1, LastCell},
        op \in {HLT, NOP, 255, RET} }

Programs ==
    BinaryPrograms \cup UnaryPrograms \cup JumpPrograms \cup StackPrograms
    \cup CallPrograms \cup InterruptPrograms \cup EdgePrograms
    \cup CompareTwicePrograms \cup PriorityPrograms

\* CPU.__init__, then CPU.load, then the first lines of CPU.run
Init ==
    /\ PC = 0
    /\ FL = 0
    /\ ram \in Programs
    /\ reg = [i \in 0..(REG_COUNT - 1) |-> IF i = SP THEN SP_INIT ELSE 0]
    /\ interrupts_allowed = TRUE
    /\ floats = {}
    /\ halted = FALSE
    /\ out = <<>>
    /\ error = "None"
    /\ pos = "top"
    /\ events = 0
    /\ hist = <<>>

Spec == Init /\ [][Next]_vars


\* ------------------------------------------------- a call of CPU.alu
\* CPU.alu called on a constructed CPU with an operation tag and two
\* register numbers, as a caller of the method other than the dispatch
\* table would: the tags of the two tables and CMP, and tags in neither.
\* As in Explored, a quotient is exact and a shift count bounded.
AluKnownTags == AluMathOps \cup AluBitOps \cup {"CMP"}
AluTags == AluKnownTags \cup {"NOP", "sub", "SUB, a, b"}
AluRegPairs == {<<0, 1>>, <<1, 0>>, <<1, 1>>, <<8, 0>>}

AluInit ==
    /\ PC = 0
    /\ FL \in {0, FL_LT}
    /\ ram = Image(<<>>)
    /\ reg \in { [i \in 0..(REG_COUNT - 1) |->
                   IF i = SP THEN SP_INIT
                   ELSE IF i = 0 THEN x ELSE IF i = 1 THEN y ELSE 0] :
                 x \in {0, 6, 255}, y \in {0, 3} }
    /\ interrupts_allowed = TRUE
    /\ floats = {}
    /\ halted = FALSE
    /\ out = <<>>
    /\ error = "None"
    /\ pos = "alu"
    /\ events = 0
    /\ hist = <<>>

AluCall ==
    /\ pos = "alu"
    /\ \E op \in AluTags, ab \in AluRegPairs :
         /\ op \in {"SHL", "SHR"} => reg[ab[2]] <= MaxShift
         /\ (op = "DIV" /\ RegErr(IntVal(ab[1])) = "None" /\ reg[ab[2]] # 0)
              => PyMod(reg[ab[1]], reg[ab[2]]) = 0
         /\ SetMachine(alu(Machine, op, IntVal(ab[1]), IntVal(ab[2])))
         /\ hist' = Append(hist, [act |-> "alu", pre |-> Machine, op |-> op,
                                  a |-> ab[1], b |-> ab[2]])
    /\ pos' = "returned"
    /\ UNCHANGED <<halted, events>>

AluSpec == AluInit /\ [][AluCall]_vars

\* ------------------------------------------------ reading the history
N == Len(hist)

\* the machine before and after step k
Pre(k) == hist[k].pre
Post(k) == IF k = N THEN Machine ELSE hist[k + 1].pre

Executed(k, IR) == hist[k].act = "execute" /\ hist[k].IR = IR

RegIndices == 0..(REG_COUNT - 1)
Bytes == 0..255

IsByte(m, r) == m.reg[r] \in Bytes /\ RegLoc(r) \notin m.floats

\* the memory cell list index x names
Cell(m, x) == m.ram[x % RAM_SIZE]

\* step k is a check_interrupts call that found a set bit of IM & IS
Dispatch(k) ==
    /\ hist[k].act = "check"
    /\ FirstSetBit(BitAnd(Pre(k).reg[IM], Pre(k).reg[IS]), 0) < 8

DispatchedLine(k) == FirstSetBit(BitAnd(Pre(k).reg[IM], Pre(k).reg[IS]), 0)

\* ------------------------------------------------------------------ C1
\* C1: executing ADD, SUB or MUL on registers a, b in 0..7 holding bytes
\* v_a, v_b completes without error and leaves reg[a] = (v_a OP v_b) mod 256
\* with every other register unchanged.
ArithExpected(IR, x, y) ==
    IF IR = ADD THEN (x + y) % 256
    ELSE IF IR = SUB THEN (x - y) % 256
    ELSE (x * y) % 256

C1_ArithmeticMod256 ==
    \A k \in {N} \ {0} :
      ( /\ hist[k].act = "execute"
        /\ hist[k].IR \in {ADD, SUB, MUL}
        /\ hist[k].a \in RegIndices
        /\ hist[k].b \in RegIndices
        /\ IsByte(Pre(k), hist[k].a)
        /\ IsByte(Pre(k), hist[k].b) )
      => /\ error = "None"
         /\ reg[hist[k].a] = ArithExpected(hist[k].IR, Pre(k).reg[hist[k].a],
                                           Pre(k).reg[hist[k].b])
         /\ \A r \in RegIndices \ {hist[k].a} : reg[r] = Pre(k).reg[r]

\* ------------------------------------------------------------------ C2
\* C2: executing CMP a,b leaves FL equal to exactly one of EQUAL (1),
\* GREATER_THAN (2), LESS_THAN (4), chosen by comparing reg[a] with reg[b],
\* whatever FL held before, and changes no register.
C2_CmpSetsExactlyOneFlag ==
    \A k \in {N} \ {0} :
      ( /\ Executed(k, CMP)
        /\ hist[k].a \in RegIndices
        /\ hist[k].b \in RegIndices )
      => LET x == Pre(k).reg[hist[k].a]
             y == Pre(k).reg[hist[k].b]
         IN  /\ error = "None"
             /\ FL \in {1, 2, 4}
             /\ (FL = 1) <=> (x = y)
             /\ (FL = 4) <=> (x < y)
             /\ (FL = 2) <=> (x > y)
             /\ reg = Pre(k).reg

\* a CMP that found LESS_THAN in FL and left GREATER_THAN
C2_Witness ==
    /\ N > 0
    /\ Executed(N, CMP)
    /\ Pre(N).FL = 4
    /\ FL = 2


\* ------------------------------------------------------------------ C3
\* C3: an interrupt dispatch happens only in a state where
\* interrupts_allowed is true, and between a dispatch and the next IRET no
\* second dispatch occurs, whatever IM and IS hold: two dispatches always
\* have an executed IRET between them, and interrupts are off from a
\* dispatch on until that IRET.
C3_NoNestedDispatch ==
    \A k \in {N} \ {0} :
      /\ Dispatch(k) =>
           /\ Pre(k).interrupts_allowed
           /\ (error = "None" => ~interrupts_allowed)
           /\ \A j \in 1..(k - 1) :
                Dispatch(j) => \E i \in (j + 1)..(k - 1) : Executed(i, IRET)
      /\ (~Pre(k).interrupts_allowed /\ interrupts_allowed) => Executed(k, IRET)
      /\ (~Pre(k).interrupts_allowed /\ ~Executed(k, IRET)) => ~interrupts_allowed

\* a second dispatch, after the IRET of the first, and an instruction that
\* ran inside the handler while a masked line was pending
C3_Witness ==
    /\ \E j \in 1..N : \E k \in (j + 1)..N : Dispatch(j) /\ Dispatch(k)
    /\ \E i \in 1..N :
         /\ hist[i].act = "execute"
         /\ ~Pre(i).interrupts_allowed
         /\ ~Post(i).interrupts_allowed
         /\ BitAnd(Post(i).reg[IM], Post(i).reg[IS]) # 0

\* ------------------------------------------------------------------ C4
\* C4: a line i with bit i set in IM that is raised while
\* interrupts_allowed is false keeps bit i of IS set until IRET re-enables
\* interrupts and still has it set in the state right after that IRET.
C4_PendingSurvivesIret ==
    \A k \in {N} \ {0} :
      ( /\ Executed(k, IRET)
        /\ ~Pre(k).interrupts_allowed
        /\ error = "None" )
      => \A i \in 0..7 :
           (BitAnd(BitAnd(Pre(k).reg[IM], Pre(k).reg[IS]), Pow2(i)) # 0)
             => BitAnd(reg[IS], Pow2(i)) # 0


\* ------------------------------------------------------------------ C5
\* the instruction steps of the history
IsInstruction(k) == hist[k].act \in {"execute", "halt", "nop", "unknown"}

\* step j is the instruction right after instruction k: nothing between
\* them changed a register or a memory cell
NextInstruction(k, j) ==
    /\ k < j
    /\ IsInstruction(j)
    /\ \A i \in (k + 1)..(j - 1) : ~IsInstruction(i)
    /\ Pre(j).reg = Post(k).reg
    /\ Pre(j).ram = Post(k).ram

\* C5: for every register r in 0..7, the stack pointer included, PUSH r
\* immediately followed by POP r restores reg[r] and SP to their values
\* before the PUSH.
C5_PushPopRestores ==
    \A j \in {N} \ {0} : \A k \in 1..(j - 1) :
      ( /\ Executed(k, PUSH)
        /\ Executed(j, POP)
        /\ hist[k].a \in RegIndices
        /\ hist[j].a = hist[k].a
        /\ NextInstruction(k, j) )
      => /\ error = "None"
         /\ reg[hist[k].a] = Pre(k).reg[hist[k].a]
         /\ reg[SP] = Pre(k).reg[SP]
         /\ floats = Pre(k).floats

\* PUSH 7; POP 7 done with the stack pointer at 0
C5_Witness ==
    /\ N > 1
    /\ Executed(N, POP)
    /\ hist[N].a = SP
    /\ \E k \in 1..(N - 1) :
         /\ Executed(k, PUSH)
         /\ hist[k].a = SP
         /\ NextInstruction(k, N)
         /\ Pre(k).reg[SP] = 0
    /\ reg[SP] = 0

\* ------------------------------------------------------------------ C6
\* C6: for a CALL at address p, a RET that finds SP and the stacked return
\* cell as the CALL left them sets PC to p + 2, never p, and SP to its value
\* before the CALL; CALL itself leaves PC at the register's value, with no
\* advance added.
C6_CallRetReturnsPastCall ==
    \A j \in {N} \ {0} :
      /\ \A k \in 1..(j - 1) :
           ( /\ Executed(k, CALL)
             /\ Post(k).error = "None"
             /\ Executed(j, RET)
             /\ Pre(j).reg[SP] = Post(k).reg[SP]
             /\ Cell(Pre(j), Pre(j).reg[SP]) = Cell(Post(k), Post(k).reg[SP]) )
           => /\ error = "None"
              /\ PC = Pre(k).PC + 2
              /\ PC # Pre(k).PC
              /\ reg[SP] = Pre(k).reg[SP]
      /\ ( /\ Executed(j, CALL)
           /\ error = "None" )
         => PC = Pre(j).reg[hist[j].a % REG_COUNT]

\* a RET matching a CALL whose subroutine pushed and popped in between
C6_Witness ==
    /\ N > 1
    /\ Executed(N, RET)
    /\ \E k \in 1..(N - 1) :
         /\ Executed(k, CALL)
         /\ Pre(N).reg[SP] = Post(k).reg[SP]
         /\ Cell(Pre(N), Pre(N).reg[SP]) = Cell(Post(k), Post(k).reg[SP])
         /\ \E i \in (k + 1)..(N - 1) : Executed(i, PUSH)
         /\ PC = Pre(k).PC + 2


\* ------------------------------------------------------------------ C7
\* the machine's registers, memory, PC and FL are those of m
SameMachine(m) ==
    /\ PC = m.PC
    /\ FL = m.FL
    /\ reg = m.reg
    /\ ram = m.ram

\* step k read at PC a byte that is no key of the dispatch table, not HLT
\* and not NOP
FetchedUnknown(k) ==
    /\ hist[k].act \in {"unknown", "fetch_error"}
    /\ RamErr(PCVal(Pre(k))) = "None"
    /\ ram_read(Pre(k), PCVal(Pre(k))).v \notin OpTableKeys \cup {HLT, NOP}

\* C7: when the byte fetched at PC is not in the dispatch table and is
\* neither HLT nor NOP, the machine stops in a fatal error state with a
\* non-zero exit status, with no register, memory cell, PC or FL changed and
\* no further instruction executed.
C7_UnknownOpcodeIsFatal ==
    \A k \in 1..N :
      FetchedUnknown(k)
      => /\ k = N
         /\ error # "None"
         /\ ExitStatus # 0
         /\ ~ENABLED Next
         /\ SameMachine(Pre(k))

\* ------------------------------------------------------------------ C8
\* C8: a NOP fetched in an iteration without a dispatch leaves PC increased
\* by exactly 1 and every register, memory cell and FL unchanged.
C8_NopAdvancesPC ==
    \A k \in {N} \ {0} :
      ( /\ hist[k].act = "nop"
        /\ k > 1 => ~Dispatch(k - 1) )
      => /\ PC = Pre(k).PC + 1
         /\ FL = Pre(k).FL
         /\ reg = Pre(k).reg
         /\ ram = Pre(k).ram

\* ------------------------------------------------------------------ C9
\* C9: PUSH with SP at 0 either moves SP to 0xFF and stores the pushed value
\* at address 0xFF, or stops the machine with a fatal error; SP never leaves
\* 0..255.
C9_PushAtZeroIsDefined ==
    \A k \in {N} \ {0} :
      ( /\ Executed(k, PUSH)
        /\ hist[k].a \in RegIndices
        /\ Pre(k).reg[SP] = 0 )
      => /\ reg[SP] \in Bytes
         /\ \/ error # "None" /\ ExitStatus # 0
            \/ /\ error = "None"
               /\ reg[SP] = 255
               /\ ram[255] = Pre(k).reg[hist[k].a]

\* ------------------------------------------------------------------ C10
\* the 9 cells a dispatch from machine m writes
SavedCells(m) == {(m.reg[SP] - n) % RAM_SIZE : n \in 1..9}

\* C10: a dispatch of line i sets interrupts_allowed to false and IS to 0,
\* lowers SP by exactly 9, stores the interrupted PC at old SP-1, FL at old
\* SP-2 and registers 0..6 at old SP-3 down to old SP-9, and sets PC to the
\* byte at vector address 0xF8 + i; IM, registers 0..4 and every memory cell
\* outside those 9 are unchanged.
C10_DispatchSavesContext ==
    \A k \in {N} \ {0} :
      Dispatch(k)
      => LET old == Pre(k)
             s == old.reg[SP]
         IN  /\ error = "None"
             /\ ~interrupts_allowed
             /\ reg[IS] = 0
             /\ reg[SP] = s - 9
             /\ Cell(Machine, s - 1) = old.PC
             /\ Cell(Machine, s - 2) = old.FL
             /\ \A r \in 0..6 : Cell(Machine, s - 3 - r) = reg[r]
             /\ \A r \in 0..5 : reg[r] = old.reg[r]
             /\ PC = ram[VECTOR_BASE + DispatchedLine(k)]
             /\ \A addr \in (0..(RAM_SIZE - 1)) \ SavedCells(old) :
                  ram[addr] = old.ram[addr]

\* a dispatch of the keyboard line that saved a non-zero FL and non-zero
\* registers
C10_Witness ==
    /\ N > 0
    /\ Dispatch(N)
    /\ DispatchedLine(N) = KEYBOARD_LINE
    /\ Pre(N).FL # 0
    /\ Pre(N).reg[IM] # 0
    /\ PC = Pre(N).ram[VECTOR_BASE + KEYBOARD_LINE]
    /\ PC # 0
    /\ reg[SP] = SP_INIT - 9

\* ------------------------------------------------------------------ C11
\* step j is the IRET that ends the handler the dispatch of step k started:
\* no other IRET lies between them, and the handler left SP and the 9
\* stacked cells as the dispatch left them
ReturnsFrom(k, j) ==
    /\ k < j
    /\ Dispatch(k)
    /\ Executed(j, IRET)
    /\ \A i \in (k + 1)..(j - 1) : ~Executed(i, IRET)
    /\ Pre(j).reg[SP] = Post(k).reg[SP]
    /\ \A addr \in SavedCells(Pre(k)) : Pre(j).ram[addr] = Post(k).ram[addr]

\* C11: a dispatch followed by IRET, with the handler leaving SP and the 9
\* saved stack cells as the dispatch left them, restores PC, FL, SP and
\* registers 0..5 to their values right before the dispatch and sets
\* interrupts_allowed to true; IRET pops registers 6 down to 0, then FL,
\* then PC, the reverse of the order the dispatch pushed them in.
C11_IretRestoresContext ==
    \A j \in {N} \ {0} : \A k \in 1..(j - 1) :
      ReturnsFrom(k, j)
      => LET old == Pre(k)
             s == old.reg[SP]
         IN  /\ error = "None"
             /\ PC = old.PC
             /\ FL = old.FL
             /\ reg[SP] = s
             /\ \A r \in 0..5 : reg[r] = old.reg[r]
             /\ interrupts_allowed
             /\ \A r \in 0..6 : reg[r] = Cell(Pre(j), s - 3 - r)
             /\ FL = Cell(Pre(j), s - 2)
             /\ PC = Cell(Pre(j), s - 1)
             /\ floats = old.floats

\* an IRET that put back a register the handler had changed, a non-zero FL
\* and a PC inside the main program
C11_Witness ==
    /\ N > 1
    /\ \E k \in 1..(N - 1) :
         /\ ReturnsFrom(k, N)
         /\ Pre(N).reg[0] # Pre(k).reg[0]
         /\ reg[0] = Pre(k).reg[0]
         /\ reg[0] # 0
         /\ Pre(k).FL # 0
         /\ FL = Pre(k).FL
         /\ Pre(N).PC # Pre(k).PC
         /\ PC = Pre(k).PC
         /\ PC # FL

\* ------------------------------------------------------------------ C12
\* C12: in every reachable state each of the 8 registers holds an integer
\* in 0..255.
C12_RegistersAreBytes ==
    \A r \in RegIndices : IsByte(Machine, r)

\* ------------------------------------------------------------------ C13
\* step k is the loop's fetch: the three reads at PC, PC + 1 and PC + 2
IsFetch(k) == IsInstruction(k) \/ hist[k].act = "fetch_error"

\* C13: for every PC in 0..255 the fetch yields three bytes without raising
\* an error; a HLT at address 254 or 255 is fetched and halts the machine.
C13_FetchNeverFails ==
    \A k \in {N} \ {0} :
      ( /\ IsFetch(k)
        /\ Pre(k).PC \in Bytes
        /\ PCLoc \notin Pre(k).floats )
      => /\ hist[k].act # "fetch_error"
         /\ Pre(k).ram[Pre(k).PC] = HLT => halted /\ error = "None"

\* ------------------------------------------------------------------ C14
\* the operand count and the sets-PC-directly flag an opcode encodes
OperandCount(IR) == IR \div 64
SetsPC(IR) == (IR \div 16) % 2 = 1

\* step k executes an instruction the specification gives a result for:
\* the registers hold bytes, its register operands are register numbers and
\* it does not divide by zero
WellFormed(k) ==
    /\ hist[k].act = "execute"
    /\ Pre(k).floats = {}
    /\ \A r \in RegIndices : Pre(k).reg[r] \in Bytes
    /\ OperandCount(hist[k].IR) >= 1 => hist[k].a \in RegIndices
    /\ (OperandCount(hist[k].IR) = 2 /\ hist[k].IR # LDI)
         => hist[k].b \in RegIndices
    /\ hist[k].IR \in {DIV, MOD} => Pre(k).reg[hist[k].b] # 0

\* the PC a PC-setting operation loads, from the machine m it starts in
TargetPC(m, IR, a) ==
    IF IR \in {JMP, CALL} THEN {m.reg[a]}
    ELSE IF IR = RET THEN {Cell(m, m.reg[SP])}
    ELSE IF IR = IRET THEN {Cell(m, m.reg[SP] + 8)}
    ELSE IF IR = INT THEN {m.PC}
    ELSE {m.reg[a], m.PC + 2}

\* C14: executing at address p an opcode of the dispatch table whose bit 4
\* is 0 leaves PC = p + 1 + (opcode >> 6); for a dispatched opcode whose bit
\* 4 is 1 the loop adds nothing to the PC the operation set.
C14_PCAdvance ==
    \A k \in {N} \ {0} :
      WellFormed(k)
      => IF SetsPC(hist[k].IR)
         THEN error = "None"
                => PC \in TargetPC(Pre(k), hist[k].IR, hist[k].a % REG_COUNT)
         ELSE /\ error = "None"
              /\ PC = Pre(k).PC + 1 + OperandCount(hist[k].IR)

\* ------------------------------------------------------------------ C15
\* step k executes DIV a,b or MOD a,b on registers a, b with reg[b] equal
\* to 0
DividesByZero(k) ==
    /\ hist[k].act = "execute"
    /\ hist[k].IR \in {DIV, MOD}
    /\ hist[k].a \in RegIndices
    /\ hist[k].b \in RegIndices
    /\ Pre(k).reg[hist[k].b] = 0

\* C15: DIV a,b or MOD a,b with reg[b] = 0 stops the machine in a fatal
\* error state, no later instruction executes, and reg[a], the other
\* registers, memory, PC and FL are as they were before the instruction.
C15_ZeroDivisorIsFatal ==
    \A k \in 1..N :
      DividesByZero(k)
      => /\ k = N
         /\ error # "None"
         /\ ExitStatus # 0
         /\ ~Running
         /\ SameMachine(Pre(k))
         /\ floats = Pre(k).floats

\* a DIV of a non-zero register by a register holding 0, and a MOD of a
\* register by itself holding 0
C15_Witness ==
    /\ N > 0
    /\ DividesByZero(N)
    /\ error = "Exception"
    /\ \/ /\ hist[N].IR = DIV
          /\ Pre(N).reg[hist[N].a] = 255
          /\ hist[N].a = SP
       \/ /\ hist[N].IR = MOD
          /\ hist[N].a = hist[N].b

\* ------------------------------------------------------------------ C16
\* C16: a call of the ALU entry point with a tag that is none of ADD, SUB,
\* MUL, DIV, MOD, INC, DEC, AND, OR, XOR, NOT, SHL, SHR, CMP ends in a fatal
\* error; it never returns normally with the registers and FL unchanged.
C16_UnknownTagIsFatal ==
    \A k \in 1..N :
      ( /\ hist[k].act = "alu"
        /\ hist[k].op \notin AluKnownTags )
      => /\ Post(k).error # "None"
         /\ ~( /\ Post(k).error = "None"
               /\ Post(k).reg = Pre(k).reg
               /\ Post(k).FL = Pre(k).FL )

\* ------------------------------------------------------------------ C17
\* bit i of the integer x
Bit(x, i) == (x \div Pow2(i)) % 2

\* the lines the poll of step k raised
RaisedLines(k) ==
    (IF hist[k].timer THEN {TIMER_LINE} ELSE {})
    \cup (IF hist[k].key # NoKey THEN {KEYBOARD_LINE} ELSE {})

\* C17: raising line i sets bit i of IS and leaves every other bit of IS as
\* it was; when the timer tick and a keystroke are raised in the same loop
\* iteration, bits 0 and 1 of IS are both set when the interrupt check runs.
C17_RaiseSetsOnlyItsBit ==
    \A k \in {N} \ {0} :
      hist[k].act = "poll"
      => \A i \in 0..7 :
           Bit(reg[IS], i) = IF i \in RaisedLines(k) THEN 1
                             ELSE Bit(Pre(k).reg[IS], i)

\* ------------------------------------------------------------------ C18
\* the lines with their bit set in IM & IS before step k
MaskedLines(k) ==
    {i \in 0..7 : Bit(BitAnd(Pre(k).reg[IM], Pre(k).reg[IS]), i) = 1}

LowestLine(k) == CHOOSE i \in MaskedLines(k) : \A j \in MaskedLines(k) : i <= j

\* C18: an interrupt check that finds bits of IM & IS set makes exactly one
\* dispatch, for the lowest-numbered set bit i: the context is saved once
\* and PC is loaded from vector address 0xF8 + i, not from the vector of a
\* higher line; when IM & IS is 0 the check changes no state at all.
C18_LowestLineOnce ==
    \A k \in {N} \ {0} :
      hist[k].act = "check"
      => IF MaskedLines(k) = {}
         THEN Machine = Pre(k)
         ELSE /\ error = "None"
              /\ PC = ram[VECTOR_BASE + LowestLine(k)]
              /\ ~interrupts_allowed
              /\ reg[SP] = Pre(k).reg[SP] - 9
              /\ Cell(Machine, Pre(k).reg[SP] - 1) = Pre(k).PC
              /\ Cell(Machine, Pre(k).reg[SP] - 2) = Pre(k).FL
              /\ \A addr \in (0..(RAM_SIZE - 1)) \ SavedCells(Pre(k)) :
                   ram[addr] = Pre(k).ram[addr]

\* a check that found lines 2 and 3 pending and enabled and dispatched
\* line 2
C18_Witness ==
    /\ N > 0
    /\ hist[N].act = "check"
    /\ MaskedLines(N) = {2, 3}
    /\ PC = 34
    /\ reg[SP] = SP_INIT - 9

\* ------------------------------------------------------------------ C19
ConditionalJumps == {JEQ, JNE, JLT, JLE, JGT, JGE}

\* the relation a conditional jump tests, between x and y
JumpRelation(IR, x, y) ==
    CASE IR = JEQ -> x = y
      [] IR = JNE -> x # y
      [] IR = JLT -> x < y
      [] IR = JLE -> x <= y
      [] IR = JGT -> x > y
      [] IR = JGE -> x >= y

\* step j is a conditional jump on a register, executed right after the
\* CMP of step k on two registers
JumpAfterCmp(k, j) ==
    /\ Executed(k, CMP)
    /\ hist[k].a \in RegIndices
    /\ hist[k].b \in RegIndices
    /\ hist[j].act = "execute"
    /\ hist[j].IR \in ConditionalJumps
    /\ hist[j].a \in RegIndices
    /\ NextInstruction(k, j)
    /\ Pre(j).FL = Post(k).FL

\* C19: CMP a,b on x = reg[a], y = reg[b] followed by a conditional jump on
\* register t sets PC to reg[t] exactly when the jump's relation holds
\* between x and y and otherwise to the jump's address + 2; the jump
\* changes neither FL nor a register nor memory.
C19_JumpFollowsCmp ==
    \A j \in {N} \ {0} : \A k \in 1..(j - 1) :
      JumpAfterCmp(k, j)
      => LET x == Pre(k).reg[hist[k].a]
             y == Pre(k).reg[hist[k].b]
         IN  /\ error = "None"
             /\ PC = IF JumpRelation(hist[j].IR, x, y)
                     THEN Pre(j).reg[hist[j].a]
                     ELSE Pre(j).PC + 2
             /\ FL = Pre(j).FL
             /\ reg = Pre(j).reg
             /\ ram = Pre(j).ram
             /\ floats = Pre(j).floats

\* a JGE taken after comparing equal values
C19_Witness ==
    /\ N > 1
    /\ Executed(N, JGE)
    /\ \E k \in 1..(N - 1) :
         /\ JumpAfterCmp(k, N)
         /\ Pre(k).reg[hist[k].a] = Pre(k).reg[hist[k].b]
         /\ hist[k].a # hist[k].b
    /\ PC = Pre(N).reg[hist[N].a]
    /\ PC # Pre(N).PC + 2

\* ------------------------------------------------------------------ C20
\* step k read HLT as the opcode at PC
FetchedHalt(k) ==
    /\ hist[k].act \in {"halt", "fetch_error"}
    /\ RamErr(PCVal(Pre(k))) = "None"
    /\ ram_read(Pre(k), PCVal(Pre(k))).v = HLT

\* C20: when the opcode fetched at PC is HLT the machine moves from running
\* to halted with PC, FL, every register and every memory cell unchanged;
\* halted is terminal: nothing is fetched, executed or dispatched
\* afterwards; and the loop ends normally only by a HLT.
C20_HaltIsTerminal ==
    /\ \A k \in 1..N :
         FetchedHalt(k)
         => /\ k = N
            /\ halted
            /\ error = "None"
            /\ SameMachine(Pre(k))
            /\ ~ENABLED Next
    /\ halted => (N > 0 /\ hist[N].act = "halt")

==========================================================================
